---- MODULE Spec2Model ----
(***************************************************************************)
(* Model of MCPClient (src/app.py): the HTTP path of send_message with its *)
(* retry loop, and the WebSocket path with connect_websocket, the handlers *)
(* on_open / on_message / on_error / on_close that run on each             *)
(* connection's background thread, and the caller threads of send_message. *)
(* Every step is one access to the shared fields of the client, so the     *)
(* interleavings of caller threads and connection threads are the ones the *)
(* interpreter allows.                                                     *)
(***************************************************************************)
EXTENDS Integers, FiniteSets, Sequences, TLC

\* ---------------------------------------------------------------- bounds
\* Largest value of max_retries the configuration is drawn from.
MaxRetriesBound == 2
\* Number of text frames the server pushes on the WebSocket connections.
MaxFrames == 2
\* The same number in the specification with fairness (LiveSpec).
MaxLiveFrames == 1

\* ---------------------------------------------------- program constants
\* for _ in range(10): readiness polls after connect_websocket().
MaxPolls == 10

\* The threads that call send_message on the one cached client, one call
\* each: two is the least that gives calls in flight at the same time.
Callers == {1, 2}
\* The WebSocketApp objects connect_websocket can create: two is the least
\* that gives a connection replaced by a later one.
Conns == {1, 2}

\* message.get("id") is falsy: the message carries no id. Every message
\* the client's operations build (lines 246-315) is of this kind.
NoId == <<"none", 0>>
\* str(uuid.uuid4()): an id no other call carries.
Uuid4(c) == <<"uuid4", c>>
\* The ids of the calls.
AllIds == {Uuid4(c) : c \in Callers}
\* The "id" of a frame that answers no call of this client (any other
\* string, or no "id" at all: data.get("id") is None).
OtherId == <<"other", 0>>

\* self.ws = None
NoWs == 0
\* no callback stored under an id of message_callbacks
NoCallback == 0
\* a Reply without an "error" field
Absent == "absent"

\* ------------------------------------------------------------- values
\* A decoded JSON object as far as the client looks at it: its "id" and
\* its "error" field (Absent when the object has none).
Value(i, e) == [id |-> i, error |-> e]
EmptyDict == Value(NoId, Absent)
ErrFailedToConnect == Value(NoId, "Failed to connect to WebSocket")
ErrTimedOut == Value(NoId, "Request timed out")
\* f"HTTP request failed after {self.max_retries+1} attempts: ..."
ErrHttpFailed(n) ==
    Value(NoId, "HTTP request failed after " \o ToString(n) \o " attempts")
AppError == "application error"

\* Replies the server can produce: any id, with or without an error field.
Replies == {Value(i, e) : i \in AllIds \cup {OtherId}, e \in {Absent, AppError}}

\* "error" in response
HasError(v) == v.error # Absent

\* Text frames the server can push on a WebSocket: a reply, text that is
\* not JSON, or JSON that is not an object.
Frames == [kind : {"reply"}, data : Replies]
            \cup [kind : {"malformed", "nonobject"}, data : {EmptyDict}]

\* Outcomes of one requests.post(...) + raise_for_status() + json(): a
\* failure of the network (HttpFailures), a 2xx body that is not JSON, or a
\* 2xx body that decodes to a reply.
HttpFailures == {"connection", "timeout", "non2xx"}
HttpOutcomes == [kind : HttpFailures \cup {"badjson"}, data : {EmptyDict}]
                  \cup [kind : {"reply"}, data : Replies]

NoOutcome == [kind |-> "none", data |-> EmptyDict]

IdleHandler == [step |-> "idle", cb |-> NoCallback, data |-> EmptyDict]

\* ------------------------------------------------- named operations
\* The string "null" the operations put where they have no argument.
Null == "null"
\* Values of workflow_ids / workflow_id: what the text inputs can hold.
WorkflowIds == {"wf-1", "a,b", ""}
\* Values of parameters: dicts, as the sequence of their (key, value) items
\* in insertion order.
ParameterDicts ==
    {<<>>, <<<<"x", 1>>>>, <<<<"x", 1>>, <<"y", 20>>>>, <<<<"y", 20>>, <<"x", 1>>>>}

\* json.dumps(d) with the default separators (", " and ": "), for a dict
\* of string keys and integer values.
RECURSIVE JsonItems(_)
JsonItems(d) ==
    IF d = <<>> THEN ""
    ELSE "\"" \o d[1][1] \o "\": " \o ToString(d[1][2])
           \o (IF Len(d) = 1 THEN "" ELSE ", " \o JsonItems(Tail(d)))
JsonDumps(d) == "{" \o JsonItems(d) \o "}"

\* The dict each operation builds: no "id", "type", "name" and "data".
MessageDict(name, operation, workflowIds, parameters) ==
    [id |-> NoId, type |-> "message", name |-> name,
     data |-> [operation |-> operation, workflowIds |-> workflowIds,
               parameters |-> parameters]]
list_workflows == MessageDict("listWorkflows", "listWorkflows", Null, Null)
search_workflows == MessageDict("searchWorkflows", "searchWorkflows", Null, Null)
add_workflow(workflow_ids) ==
    MessageDict("addWorkflow", "addWorkflow", workflow_ids, Null)
remove_workflow(workflow_ids) ==
    MessageDict("removeWorkflow", "removeWorkflow", workflow_ids, Null)
execute_workflowNullParameters(workflow_id, parameters) ==
    MessageDict("executeWorkflow", "executeWorkflow", workflow_id, Null)
execute_workflow(workflow_id, parameters) ==
    MessageDict("executeWorkflow", "executeWorkflow", workflow_id,
                JsonDumps(parameters))

\* A call of a named operation: the method and its arguments (an argument
\* the method does not take is "" or <<>>).
Call(op, workflow_ids, parameters) ==
    [op |-> op, workflow_ids |-> workflow_ids, parameters |-> parameters]
NoCall == Call("none", "", <<>>)
ListCall == Call("list_workflows", "", <<>>)
Calls ==
    {ListCall, Call("search_workflows", "", <<>>)}
      \cup {Call(op, w, <<>>) : op \in {"add_workflow", "remove_workflow"},
                                w \in WorkflowIds}
      \cup {Call("execute_workflow", w, p) : w \in WorkflowIds, p \in ParameterDicts}
\* The message the called method hands to send_message.
BuildMessage(call) ==
    CASE call.op = "list_workflows" -> list_workflows
      [] call.op = "search_workflows" -> search_workflows
      [] call.op = "add_workflow" -> add_workflow(call.workflow_ids)
      [] call.op = "remove_workflow" -> remove_workflow(call.workflow_ids)
      [] call.op = "execute_workflow" ->
             execute_workflow(call.workflow_ids, call.parameters)
NoMessage == MessageDict("", "", "", "")

VARIABLES
    connection_type,    \* self.connection_type
    max_retries,        \* self.max_retries
    ws,                 \* self.ws: the WebSocketApp last created, or NoWs
    ws_connected,       \* self.ws_connected
    connection_status,  \* st.session_state.connection_status
    message_callbacks,  \* self.message_callbacks: id -> caller whose callback it holds
    conn,               \* state of each WebSocketApp object and its thread
    handler,            \* position of each connection thread inside on_message
    pc,                 \* position of each caller inside send_message
    called,             \* the operation each caller called, with its arguments
    envelope,           \* the message dict of each caller's call
    mid,                \* message["id"] of each caller's call
    polls,              \* iterations done of the readiness loop
    attempt,            \* the HTTP loop variable
    result,             \* the closure variable result of each call
    event,              \* the threading.Event of each call
    ret,                \* the value send_message returned
    requests_made,      \* number of requests.post calls of each call
    received,           \* what the last requests.post of each call met
    failures,           \* number of those that raised a RequestException
    sleeps,             \* number of time.sleep(retry_delay) of each call
    writes,             \* number of frames each call wrote with ws.send
    frames_received,    \* number of frames the connection threads received
    unmatched           \* number of those that were replies to no pending call

vars == <<connection_type, max_retries, ws, ws_connected, connection_status,
          message_callbacks, conn, handler, pc, mid, polls, attempt, result,
          event, ret, requests_made, received, failures, sleeps, writes,
          frames_received, unmatched, called, envelope>>

clientVars == <<ws, ws_connected, connection_status, message_callbacks>>
connVars == <<conn, handler, frames_received, unmatched>>
configVars == <<connection_type, max_retries>>
opVars == <<called, envelope>>
callVars == <<mid, polls, attempt, result, event, ret, requests_made, received,
             failures, sleeps, writes>>

\* The configurations get_client() builds the client from. max_retries is
\* read on the HTTP branch only (lines 226-242), so on WebSocket its least
\* and its largest value stand for all.
Configs ==
    [connection_type : {"HTTP"}, max_retries : 0 .. MaxRetriesBound]
      \cup [connection_type : {"WebSocket"}, max_retries : {0, MaxRetriesBound}]

\* MCPClient.__init__ and the first script run.
Init ==
    /\ \E cfg \in Configs : /\ connection_type = cfg.connection_type
                            /\ max_retries = cfg.max_retries
    /\ ws = NoWs
    /\ ws_connected = FALSE
    /\ connection_status = "Disconnected"
    /\ message_callbacks = [i \in AllIds |-> NoCallback]
    /\ conn = [k \in Conns |-> "unused"]
    /\ handler = [k \in Conns |-> IdleHandler]
    /\ pc = [c \in Callers |-> "idle"]
    /\ called = [c \in Callers |-> NoCall]
    /\ envelope = [c \in Callers |-> NoMessage]
    /\ mid = [c \in Callers |-> NoId]
    /\ polls = [c \in Callers |-> 0]
    /\ attempt = [c \in Callers |-> 0]
    /\ result = [c \in Callers |-> EmptyDict]
    /\ event = [c \in Callers |-> FALSE]
    /\ ret = [c \in Callers |-> EmptyDict]
    /\ requests_made = [c \in Callers |-> 0]
    /\ failures = [c \in Callers |-> 0]
    /\ sleeps = [c \in Callers |-> 0]
    /\ writes = [c \in Callers |-> 0]
    /\ frames_received = 0
    /\ unmatched = 0
    /\ received = [c \in Callers |-> NoOutcome]


\* ------------------------------------------------- connect_websocket
UnusedConns == {k \in Conns : conn[k] = "unused"}
\* Callers that may still reach self.connect_websocket() in send_message.
MayConnect == {c \in Callers : pc[c] \in {"idle", "connect"}}

\* connect_websocket(): builds a new WebSocketApp, stores it in self.ws and
\* starts its thread (run_forever), whatever the state of the client is.
ConnectWebsocket ==
    /\ connection_type = "WebSocket"
    /\ UnusedConns # {}
    /\ LET k == CHOOSE x \in UnusedConns : \A y \in UnusedConns : x <= y
       IN  /\ conn' = [conn EXCEPT ![k] = "connecting"]
           /\ ws' = k
    /\ UNCHANGED <<ws_connected, message_callbacks, handler, frames_received,
                   unmatched>>

\* Lines 677-683: a run of the script writes the status it shows from
\* client.ws_connected.
Rerender ==
    /\ connection_type = "WebSocket"
    /\ connection_status' = IF ws_connected THEN "Connected" ELSE "Disconnected"
    /\ UNCHANGED <<configVars, opVars, ws, ws_connected, message_callbacks, connVars,
                   pc, callVars>>

\* Lines 682-686: the sidebar's "Connect WebSocket" button, shown by a run
\* that found ws_connected false and wrote the status "Disconnected".
ConnectButton ==
    /\ ~ws_connected
    /\ Cardinality(UnusedConns) > Cardinality(MayConnect)
    /\ connection_status' = "Disconnected"
    /\ ConnectWebsocket
    /\ UNCHANGED <<configVars, opVars, pc, callVars>>

\* ------------------------------------------- events of a connection
\* on_open(ws)
OnOpen(k) ==
    /\ conn[k] = "connecting"
    /\ conn' = [conn EXCEPT ![k] = "open"]
    /\ ws_connected' = TRUE
    /\ connection_status' = "Connected"
    /\ UNCHANGED <<configVars, opVars, ws, message_callbacks, handler, frames_received,
                   unmatched, pc, callVars>>

\* on_error(ws, error): the connection attempt or the open connection failed.
OnError(k) ==
    /\ conn[k] \in {"connecting", "open"}
    /\ handler[k].step = "idle"
    /\ conn' = [conn EXCEPT ![k] = "errored"]
    /\ ws_connected' = FALSE
    /\ connection_status' = "Error"
    /\ UNCHANGED <<configVars, opVars, ws, message_callbacks, handler, frames_received,
                   unmatched, pc, callVars>>

\* on_close that connects again by itself.
OnCloseReconnects(k) ==
    /\ conn[k] \in {"open", "errored"}
    /\ handler[k].step = "idle"
    /\ ws_connected' = FALSE
    /\ connection_status' = "Disconnected"
    /\ IF UnusedConns # {}
       THEN LET j == CHOOSE x \in UnusedConns : \A y \in UnusedConns : x <= y
            IN  /\ conn' = [conn EXCEPT ![k] = "closed", ![j] = "connecting"]
                /\ ws' = j
       ELSE /\ conn' = [conn EXCEPT ![k] = "closed"]
            /\ UNCHANGED ws
    /\ UNCHANGED <<configVars, opVars, message_callbacks, handler, frames_received,
                   unmatched, pc, callVars>>

\* on_close(ws, code, msg): run_forever ends, after an error or a close.
OnClose(k) ==
    /\ conn[k] \in {"open", "errored"}
    /\ handler[k].step = "idle"
    /\ conn' = [conn EXCEPT ![k] = "closed"]
    /\ ws_connected' = FALSE
    /\ connection_status' = "Disconnected"
    /\ UNCHANGED <<configVars, opVars, ws, message_callbacks, handler, frames_received,
                   unmatched, pc, callVars>>

\* Callback with the result kept in one slot shared by all calls instead
\* of the closure's own variable.
CallbackSharedResult(c, data) ==
    /\ result' = [x \in Callers |-> data]
    /\ event' = [event EXCEPT ![c] = TRUE]

\* The callback closure of caller c: result = data; event.set()
Callback(c, data) ==
    /\ result' = [result EXCEPT ![c] = data]
    /\ event' = [event EXCEPT ![c] = TRUE]

\* message_id in self.message_callbacks
InCallbacks(i) == i \in AllIds /\ message_callbacks[i] # NoCallback

\* on_message that hands a reply with an unknown id to a call that is
\* pending instead of dropping it.
OnMessageLookupFallback(k, f) ==
    /\ conn[k] = "open"
    /\ handler[k].step = "idle"
    /\ frames_received < MaxFrames
    /\ frames_received' = frames_received + 1
    /\ unmatched' = IF f.kind = "reply" /\ (\A i \in AllIds :
                          i = f.data.id => message_callbacks[i] = NoCallback)
                    THEN unmatched + 1 ELSE unmatched
    /\ LET pending == {i \in AllIds : message_callbacks[i] # NoCallback}
           any == CHOOSE i \in pending : TRUE
       IN handler' = [handler EXCEPT ![k] =
             IF f.kind = "reply" /\ InCallbacks(f.data.id)
             THEN [step |-> "call", cb |-> message_callbacks[f.data.id], data |-> f.data]
             ELSE IF f.kind = "reply" /\ pending # {}
             THEN [step |-> "call", cb |-> message_callbacks[any], data |-> f.data]
             ELSE IdleHandler]
    /\ UNCHANGED <<configVars, opVars, clientVars, conn, pc, callVars>>

\* on_message without the try/except: a frame that cannot be decoded ends
\* the connection's thread.
OnMessageLookupUncaught(k, f) ==
    /\ conn[k] = "open"
    /\ handler[k].step = "idle"
    /\ frames_received < MaxFrames
    /\ frames_received' = frames_received + 1
    /\ unmatched' = IF f.kind = "reply" /\ (\A i \in AllIds :
                          i = f.data.id => message_callbacks[i] = NoCallback)
                    THEN unmatched + 1 ELSE unmatched
    /\ handler' = [handler EXCEPT ![k] =
          IF f.kind = "reply" /\ InCallbacks(f.data.id)
          THEN [step |-> "call", cb |-> message_callbacks[f.data.id], data |-> f.data]
          ELSE IdleHandler]
    /\ conn' = IF f.kind = "reply" THEN conn ELSE [conn EXCEPT ![k] = "closed"]
    /\ UNCHANGED <<configVars, opVars, clientVars, pc, callVars>>

\* on_message, lines 151-155: decode the frame and look its id up. A frame
\* that json.loads or data.get rejects raises inside the try and is logged.
OnMessageLookup(k, f) ==
    /\ conn[k] = "open"
    /\ handler[k].step = "idle"
    /\ frames_received < MaxFrames
    /\ frames_received' = frames_received + 1
    /\ unmatched' = IF f.kind = "reply" /\ (\A i \in AllIds :
                          i = f.data.id => message_callbacks[i] = NoCallback)
                    THEN unmatched + 1 ELSE unmatched
    /\ handler' = [handler EXCEPT ![k] =
          IF f.kind = "reply" /\ InCallbacks(f.data.id)
          THEN [step |-> "call", cb |-> message_callbacks[f.data.id], data |-> f.data]
          ELSE IdleHandler]
    /\ UNCHANGED <<configVars, opVars, clientVars, conn, pc, callVars>>

\* on_message, line 156: callback(data)
OnMessageCall(k) ==
    /\ handler[k].step = "call"
    /\ Callback(handler[k].cb, handler[k].data)
    /\ handler' = [handler EXCEPT ![k] =
          [step |-> "del", cb |-> NoCallback, data |-> Value(handler[k].data.id, Absent)]]
    /\ UNCHANGED <<configVars, opVars, clientVars, conn, frames_received, unmatched, pc,
                   mid, polls, attempt, ret, requests_made, received, failures,
                   sleeps, writes>>

\* on_message, line 157: del self.message_callbacks[message_id]; a KeyError
\* (the entry is gone already) is caught by the handler's except.
OnMessageDel(k) ==
    /\ handler[k].step = "del"
    /\ message_callbacks' = [message_callbacks EXCEPT ![handler[k].data.id] = NoCallback]
    /\ handler' = [handler EXCEPT ![k] = IdleHandler]
    /\ UNCHANGED <<configVars, opVars, ws, ws_connected, connection_status, conn,
                   frames_received, unmatched, pc, callVars>>


\* ------------------------------------------------------ send_message
\* Lines 190-196: give the message an id when it has none, branch on the
\* transport and, on WebSocket, read self.ws_connected. message is the
\* dict the caller hands over.
SendMessage(c, message) ==
    /\ pc[c] = "idle"
    /\ mid' = [mid EXCEPT ![c] = IF message.id = NoId THEN Uuid4(c) ELSE message.id]
    /\ envelope' = [envelope EXCEPT ![c] = [message EXCEPT !.id = mid'[c]]]
    /\ pc' = [pc EXCEPT ![c] =
          IF connection_type # "WebSocket" THEN "http"
          ELSE IF ws_connected THEN "check_again" ELSE "connect"]
    /\ UNCHANGED <<configVars, clientVars, connVars, polls, attempt, result, event,
                   ret, requests_made, received, failures, sleeps, writes>>

\* Lines 244-307: a named operation builds its message and passes it to
\* send_message.
Operation(c, call) ==
    /\ called' = [called EXCEPT ![c] = call]
    /\ SendMessage(c, BuildMessage(call))

\* Line 197: self.connect_websocket()
Connect(c) ==
    /\ pc[c] = "connect"
    /\ ConnectWebsocket
    /\ pc' = [pc EXCEPT ![c] = "poll"]
    /\ UNCHANGED <<configVars, opVars, connection_status, callVars>>

\* Lines 199-202: one iteration of the readiness loop; the loop ends at the
\* first iteration that sees ws_connected, or after MaxPolls sleeps. The
\* loop variable is dead after the loop.
Poll(c) ==
    /\ pc[c] = "poll"
    /\ IF ws_connected \/ polls[c] + 1 >= MaxPolls
       THEN /\ pc' = [pc EXCEPT ![c] = "check_again"]
            /\ polls' = [polls EXCEPT ![c] = 0]
       ELSE /\ polls' = [polls EXCEPT ![c] = @ + 1]
            /\ UNCHANGED pc
    /\ UNCHANGED <<configVars, opVars, clientVars, connVars, mid, attempt, result, event,
                   ret, requests_made, received, failures, sleeps, writes>>

\* The callback stored before the second test of ws_connected.
CheckAgainAfterRegister(c) ==
    /\ pc[c] = "check_again"
    /\ message_callbacks' = [message_callbacks EXCEPT ![mid[c]] = c]
    /\ IF ws_connected
       THEN /\ pc' = [pc EXCEPT ![c] = "register"]
            /\ UNCHANGED ret
       ELSE /\ pc' = [pc EXCEPT ![c] = "done"]
            /\ ret' = [ret EXCEPT ![c] = ErrFailedToConnect]
    /\ UNCHANGED <<configVars, opVars, ws, ws_connected, connection_status, connVars,
                   mid, polls, attempt, result, event, requests_made, received,
                   failures, sleeps, writes>>

\* Lines 204-206: if not self.ws_connected: return {"error": ...}
CheckAgain(c) ==
    /\ pc[c] = "check_again"
    /\ IF ws_connected
       THEN /\ pc' = [pc EXCEPT ![c] = "register"]
            /\ UNCHANGED ret
       ELSE /\ pc' = [pc EXCEPT ![c] = "done"]
            /\ ret' = [ret EXCEPT ![c] = ErrFailedToConnect]
    /\ UNCHANGED <<configVars, opVars, clientVars, connVars, mid, polls, attempt, result,
                   event, requests_made, received, failures, sleeps, writes>>

\* Lines 208-216: result = {}, event = Event(), and the callback is stored
\* under the message's id.
Register(c) ==
    /\ pc[c] = "register"
    /\ result' = [result EXCEPT ![c] = EmptyDict]
    /\ event' = [event EXCEPT ![c] = FALSE]
    /\ message_callbacks' = [message_callbacks EXCEPT ![mid[c]] = c]
    /\ pc' = [pc EXCEPT ![c] = "send"]
    /\ UNCHANGED <<configVars, opVars, ws, ws_connected, connection_status, connVars, mid,
                   polls, attempt, ret, requests_made, received, failures, sleeps,
                   writes>>

\* Line 217: self.ws.send(...). WebSocketApp.send raises
\* WebSocketConnectionClosedException unless its socket is connected.
WsSend(c) ==
    /\ pc[c] = "send"
    /\ IF ws # NoWs /\ conn[ws] = "open"
       THEN /\ writes' = [writes EXCEPT ![c] = @ + 1]
            /\ pc' = [pc EXCEPT ![c] = "wait"]
       ELSE /\ pc' = [pc EXCEPT ![c] = "raised"]
            /\ UNCHANGED writes
    /\ UNCHANGED <<configVars, opVars, clientVars, connVars, mid, polls, attempt, result,
                   event, ret, requests_made, received, failures, sleeps>>

\* event.wait() without the timeout: returns only once the event is set.
WaitWithoutTimeout(c) ==
    /\ pc[c] = "wait"
    /\ event[c]
    /\ ret' = [ret EXCEPT ![c] = result[c]]
    /\ pc' = [pc EXCEPT ![c] = "done"]
    /\ UNCHANGED <<configVars, opVars, clientVars, connVars, mid, polls, attempt, result,
                   event, requests_made, received, failures, sleeps, writes>>

\* The WebSocket path with the retry loop of the HTTP path around it: a
\* timeout sends the message again while retries are left.
WaitRetriesOnTimeout(c) ==
    /\ pc[c] = "wait"
    /\ IF ~event[c] /\ attempt[c] < max_retries
       THEN /\ attempt' = [attempt EXCEPT ![c] = @ + 1]
            /\ pc' = [pc EXCEPT ![c] = "send"]
            /\ UNCHANGED ret
       ELSE /\ ret' = [ret EXCEPT ![c] = IF event[c] THEN result[c] ELSE ErrTimedOut]
            /\ pc' = [pc EXCEPT ![c] = "done"]
            /\ UNCHANGED attempt
    /\ UNCHANGED <<configVars, opVars, clientVars, connVars, mid, polls, result,
                   event, requests_made, received, failures, sleeps, writes>>

\* Lines 219-223: event.wait(timeout) returned: True when the event is set,
\* False when the timeout elapsed first.
Wait(c) ==
    /\ pc[c] = "wait"
    /\ ret' = [ret EXCEPT ![c] = IF event[c] THEN result[c] ELSE ErrTimedOut]
    /\ pc' = [pc EXCEPT ![c] = "done"]
    /\ UNCHANGED <<configVars, opVars, clientVars, connVars, mid, polls, attempt, result,
                   event, requests_made, received, failures, sleeps, writes>>

\* The except branch with the retry test off by one: one attempt too few.
HttpFailedOneAttemptLess(c) ==
    /\ failures' = [failures EXCEPT ![c] = @ + 1]
    /\ IF attempt[c] + 1 < max_retries
       THEN /\ pc' = [pc EXCEPT ![c] = "sleep"]
            /\ UNCHANGED ret
       ELSE /\ pc' = [pc EXCEPT ![c] = "done"]
            /\ ret' = [ret EXCEPT ![c] = ErrHttpFailed(max_retries + 1)]

\* Lines 237-242: the except branch of one attempt.
HttpFailed(c) ==
    /\ failures' = [failures EXCEPT ![c] = @ + 1]
    /\ IF attempt[c] < max_retries
       THEN /\ pc' = [pc EXCEPT ![c] = "sleep"]
            /\ UNCHANGED ret
       ELSE /\ pc' = [pc EXCEPT ![c] = "done"]
            /\ ret' = [ret EXCEPT ![c] = ErrHttpFailed(max_retries + 1)]

\* The retry loop treating a decoded reply that carries "error" as a failed
\* attempt.
HttpAttemptRetriesErrorReply(c, o) ==
    /\ pc[c] = "http"
    /\ requests_made' = [requests_made EXCEPT ![c] = @ + 1]
    /\ received' = [received EXCEPT ![c] = o]
    /\ \/ /\ o.kind \in HttpFailures \cup {"badjson"} \/ HasError(o.data)
          /\ HttpFailed(c)
       \/ /\ o.kind = "badjson"
          /\ pc' = [pc EXCEPT ![c] = "raised"]
          /\ UNCHANGED <<ret, failures>>
       \/ /\ o.kind = "reply" /\ ~HasError(o.data)
          /\ ret' = [ret EXCEPT ![c] = o.data]
          /\ pc' = [pc EXCEPT ![c] = "done"]
          /\ UNCHANGED failures
    /\ UNCHANGED <<configVars, opVars, clientVars, connVars, mid, polls, attempt, result,
                   event, sleeps, writes>>

\* Lines 226-242: one iteration of the retry loop. o is what the server and
\* the network do: a failure of HttpFailures, a 2xx reply, or a 2xx body
\* that is not JSON (response.json() raises; the exception is a
\* RequestException or a plain ValueError, by the version of requests).
HttpAttempt(c, o) ==
    /\ pc[c] = "http"
    /\ requests_made' = [requests_made EXCEPT ![c] = @ + 1]
    /\ received' = [received EXCEPT ![c] = o]
    /\ \/ /\ o.kind \in HttpFailures \cup {"badjson"}
          /\ HttpFailed(c)
       \/ /\ o.kind = "badjson"
          /\ pc' = [pc EXCEPT ![c] = "raised"]
          /\ UNCHANGED <<ret, failures>>
       \/ /\ o.kind = "reply"
          /\ ret' = [ret EXCEPT ![c] = o.data]
          /\ pc' = [pc EXCEPT ![c] = "done"]
          /\ UNCHANGED failures
    /\ UNCHANGED <<configVars, opVars, clientVars, connVars, mid, polls, attempt, result,
                   event, sleeps, writes>>

\* The next iteration started without the sleep.
HttpSleepSkipped(c) ==
    /\ pc[c] = "sleep"
    /\ attempt' = [attempt EXCEPT ![c] = @ + 1]
    /\ pc' = [pc EXCEPT ![c] = "http"]
    /\ UNCHANGED <<configVars, opVars, clientVars, connVars, mid, polls, result, event, ret,
                   requests_made, received, failures, sleeps, writes>>

\* Line 240: time.sleep(self.retry_delay), then the next iteration.
HttpSleep(c) ==
    /\ pc[c] = "sleep"
    /\ sleeps' = [sleeps EXCEPT ![c] = @ + 1]
    /\ attempt' = [attempt EXCEPT ![c] = @ + 1]
    /\ pc' = [pc EXCEPT ![c] = "http"]
    /\ UNCHANGED <<configVars, opVars, clientVars, connVars, mid, polls, result, event, ret,
                   requests_made, received, failures, writes>>

\* ------------------------------------------------------------ system
\* The steps of a call after its first.
CallerSteps(c) ==
    \/ Connect(c)
    \/ Poll(c)
    \/ CheckAgain(c)
    \/ Register(c)
    \/ WsSend(c)
    \/ Wait(c)
    \/ \E o \in HttpOutcomes : HttpAttempt(c, o)
    \/ HttpSleep(c)

\* send_message reads nothing of the message but its "id", so in the
\* specifications of the concurrent client every caller calls
\* list_workflows.
CallerNext(c) ==
    \/ \E call \in {ListCall} : Operation(c, call)
    \/ CallerSteps(c)

HandlerNext(k) ==
    \/ OnMessageCall(k)
    \/ OnMessageDel(k)

ServerNext(k) ==
    \/ OnOpen(k)
    \/ OnError(k)
    \/ OnClose(k)
    \/ \E f \in Frames : OnMessageLookup(k, f)

Next ==
    \/ \E c \in Callers : CallerNext(c)
    \/ \E k \in Conns : HandlerNext(k)
    \/ \E k \in Conns : ServerNext(k)
    \/ ConnectButton
    \/ Rerender

Spec == Init /\ [][Next]_vars

LiveServerNext(k) ==
    \/ OnOpen(k)
    \/ OnError(k)
    \/ OnClose(k)
    \/ \E f \in Frames : frames_received < MaxLiveFrames /\ OnMessageLookup(k, f)

\* The runs of the script that only redraw the status (Rerender) are left
\* out: no step of a call or of a connection reads connection_status.
LiveNext ==
    \/ \E c \in Callers : CallerNext(c)
    \/ \E k \in Conns : HandlerNext(k)
    \/ \E k \in Conns : LiveServerNext(k)
    \/ ConnectButton

\* One caller, every named operation with every argument; the connections
\* are the ones its calls create.
OpsCaller == 1
OpsNext ==
    \/ \E call \in Calls : Operation(OpsCaller, call)
    \/ \E c \in Callers : CallerSteps(c)
    \/ \E k \in Conns : HandlerNext(k)
    \/ \E k \in Conns : ServerNext(k)
    \/ Rerender

OpsSpec == Init /\ [][OpsNext]_vars

\* Every thread that can take a step is scheduled; timeouts and sleeps
\* elapse. What the server sends, and when, is left open.
LiveSpec ==
    /\ Init
    /\ [][LiveNext]_vars
    /\ \A c \in Callers : WF_vars(CallerNext(c))
    /\ \A k \in Conns : WF_vars(HandlerNext(k))


\* -------------------------------------------------------- properties
Finished(c) == pc[c] \in {"done", "raised"}
TimedOut(c) == pc[c] = "done" /\ ret[c] = ErrTimedOut
\* connect_websocket created a WebSocketApp in this step.
NewConnection == \E k \in Conns : conn[k] = "unused" /\ conn'[k] = "connecting"
\* The client is connected, or its last connection attempt is in progress.
ConnectedOrConnecting == ws_connected \/ (ws # NoWs /\ conn[ws] = "connecting")

\* C1: on HTTP, while every attempt of a call has failed, the call has made
\* at most max_retries+1 requests; it goes on until it has made exactly
\* max_retries+1, and then it has returned the error value.
AllAttemptsFailed(c) ==
    connection_type = "HTTP" /\ requests_made[c] > 0 /\ failures[c] = requests_made[c]
C1_ExactlyRPlusOneAttempts ==
    \A c \in Callers : AllAttemptsFailed(c) =>
        /\ requests_made[c] <= max_retries + 1
        /\ pc[c] # "raised"
        /\ pc[c] = "done" <=> requests_made[c] = max_retries + 1
        /\ pc[c] = "done" => ret[c] = ErrHttpFailed(requests_made[c])
C1_Witness ==
    \E c \in Callers : /\ AllAttemptsFailed(c)
                       /\ max_retries = 2
                       /\ requests_made[c] = 3
                       /\ ret[c] = ErrHttpFailed(3)

\* C2: on HTTP, once an attempt has met a decoded reply that carries an
\* "error" field, the call has returned exactly that reply and is over: no
\* sleep and no further attempt follows, whatever retries remain.
GotErrorReply(c) ==
    connection_type = "HTTP" /\ received[c].kind = "reply" /\ HasError(received[c].data)
C2_ErrorReplyReturnedAtOnce ==
    \A c \in Callers : GotErrorReply(c) => pc[c] = "done" /\ ret[c] = received[c].data
C2_Witness ==
    \E c \in Callers : /\ GotErrorReply(c)
                       /\ pc[c] = "done"
                       /\ requests_made[c] = 2
                       /\ max_retries = 2

\* C3: when a WebSocket call has returned "Request timed out", the
\* pending-call table holds no entry under that call's id.
C3_TimedOutCallRemoved ==
    \A c \in Callers : TimedOut(c) => message_callbacks[mid[c]] = NoCallback

\* C4: a frame that arrives after its call timed out finds no pending entry:
\* no receive handler goes from idle to calling the callback of a call that
\* has already returned "Request timed out".
C4_LateReplyDiscarded ==
    [][\A k \in Conns, c \in Callers :
         TimedOut(c) =>
           ~(handler[k].step = "idle" /\ handler'[k].step = "call"
               /\ handler'[k].cb = c)]_vars

\* C5: the step that handles an error or close event of an open connection
\* leaves the pending-call table empty and every call that was waiting
\* completed with an error.
C5_PendingFailedOnClose ==
    [][\A k \in Conns :
         (conn[k] = "open" /\ conn'[k] \in {"errored", "closed"}) =>
           /\ \A i \in AllIds : message_callbacks'[i] = NoCallback
           /\ \A c \in Callers :
                (pc[c] = "wait" /\ ~event[c]) => (event'[c] /\ HasError(result'[c]))]_vars

\* C6: the step that receives a reply whose id is in no entry of the
\* pending-call table changes neither the table nor any call's result slot,
\* completion signal or return value, and starts no callback.
C6_UnmatchedReplyDiscarded ==
    [][unmatched' # unmatched =>
         UNCHANGED <<message_callbacks, result, event, handler, pc, ret>>]_vars
C6_Witness ==
    /\ unmatched > 0
    /\ \E c \in Callers : pc[c] = "wait" /\ ~event[c] /\ message_callbacks[mid[c]] = c

\* C7: a WebSocket call that completed before its timeout returned a reply
\* whose id is the id of its own envelope; the same holds of the result
\* slot of every call whose completion is signalled.
C7_ReplyMatchedById ==
    \A c \in Callers :
        /\ (connection_type = "WebSocket" /\ pc[c] = "done"
              /\ ret[c] \notin {ErrTimedOut, ErrFailedToConnect}) => ret[c].id = mid[c]
        /\ event[c] => result[c].id = mid[c]
C7_Witness ==
    \E c, d \in Callers :
        /\ c # d
        /\ pc[c] = "wait" /\ writes[c] = 1 /\ ~event[c]
        /\ pc[d] = "done" /\ writes[d] = 1 /\ ret[d].id = mid[d]

\* C8: connect_websocket called while the client is connected or
\* connecting creates no connection.
C8_ConnectIdempotent ==
    [][ConnectedOrConnecting => ~NewConnection]_vars

\* C9: no WebSocket call of send_message ends with an exception.
C9_NoExceptionToCaller ==
    \A c \in Callers : connection_type = "WebSocket" => pc[c] # "raised"

\* C10: every call of send_message that has started ends (with a value, or
\* with the exception of C9); the readiness loop never exceeds MaxPolls
\* iterations and the HTTP loop never exceeds max_retries+1 requests.
C10_EveryCallEnds ==
    /\ [](\A c \in Callers : polls[c] < MaxPolls /\ requests_made[c] <= max_retries + 1)
    /\ \A c \in Callers : (pc[c] # "idle") ~> Finished(c)
C10_Witness ==
    \E c \in Callers : TimedOut(c) /\ frames_received = 0

\* C11: a call whose message carried no id has the generated id in its
\* message, and a reply it returns as its result carries that id.
C11_ReplyMatchesGeneratedId ==
    \A c \in Callers :
        /\ pc[c] # "idle" => mid[c] = Uuid4(c) /\ envelope[c].id = mid[c]
        /\ (pc[c] = "done" /\ ret[c].id # NoId) => ret[c].id = mid[c]

\* The JSON text of each dict of ParameterDicts, written out.
ExpectedJson(parameters) ==
    CASE parameters = <<>> -> "{}"
      [] parameters = <<<<"x", 1>>>> -> "{\"x\": 1}"
      [] parameters = <<<<"x", 1>>, <<"y", 20>>>> -> "{\"x\": 1, \"y\": 20}"
      [] parameters = <<<<"y", 20>>, <<"x", 1>>>> -> "{\"y\": 20, \"x\": 1}"

\* The name an operation puts on the wire.
WireName(op) ==
    CASE op = "list_workflows" -> "listWorkflows"
      [] op = "search_workflows" -> "searchWorkflows"
      [] op = "add_workflow" -> "addWorkflow"
      [] op = "remove_workflow" -> "removeWorkflow"
      [] op = "execute_workflow" -> "executeWorkflow"

\* C12: the envelope of a named operation has type "message", the
\* operation's name as name and as data.operation, workflowIds = "null" for
\* list and search and the ids given otherwise, and parameters = "null"
\* except for executeWorkflow, where it is the JSON text of the parameters.
C12_OperationEnvelopes ==
    \A c \in Callers :
        pc[c] # "idle" =>
            LET e == envelope[c]
                op == called[c].op
            IN  /\ e.type = "message"
                /\ e.name = WireName(op)
                /\ e.data.operation = WireName(op)
                /\ e.data.workflowIds =
                      (IF op \in {"list_workflows", "search_workflows"}
                       THEN "null" ELSE called[c].workflow_ids)
                /\ e.data.parameters =
                      (IF op = "execute_workflow"
                       THEN ExpectedJson(called[c].parameters) ELSE "null")

\* executeWorkflow("wf-1", {"x": 1, "y": 20}) written to an open WebSocket.
C12_Witness ==
    \E c \in Callers :
        /\ connection_type = "WebSocket"
        /\ writes[c] = 1
        /\ called[c] = Call("execute_workflow", "wf-1", <<<<"x", 1>>, <<"y", 20>>>>)
        /\ envelope[c].data.parameters = "{\"x\": 1, \"y\": 20}"

\* C13: the readiness loop makes at most MaxPolls tests, and a call that
\* returns the failed-to-connect error has stored no callback and written
\* no frame.
C13_FailedConnectLeavesNothing ==
    \A c \in Callers :
        /\ polls[c] < MaxPolls
        /\ (pc[c] = "done" /\ ret[c] = ErrFailedToConnect) =>
              /\ writes[c] = 0
              /\ ~InCallbacks(mid[c])
              /\ ~event[c]

\* No connection ever opened, so ws_connected was never true: the call
\* went through connect_websocket and all the polls before it gave up.
C13_Witness ==
    \E c \in Callers :
        /\ pc[c] = "done"
        /\ ret[c] = ErrFailedToConnect
        /\ ws # NoWs
        /\ \A k \in Conns : conn[k] \in {"unused", "connecting"}

\* A handler between its test of the table and its del (lines 153-157).
InSequence(k) == handler[k].step \in {"call", "del"}
\* The step stores a callback (line 216).
InsertStep == \E c \in Callers : pc[c] = "register" /\ pc'[c] = "send"
\* The step is handler j's lookup that finds an entry, or its del.
HandlerAccessStep(j) ==
    \/ handler[j].step = "idle" /\ handler'[j].step = "call"
    \/ handler[j].step = "del" /\ handler'[j].step = "idle"

\* C14: while a handler is inside its check-call-delete sequence no other
\* thread accesses message_callbacks.
C14_TableAccessExclusive ==
    [][\A k \in Conns :
          InSequence(k) =>
              /\ ~InsertStep
              /\ \A j \in Conns \ {k} : ~HandlerAccessStep(j)]_vars

\* C15: at most one WebSocketApp with its run_forever thread is live.
C15_OneLiveConnection ==
    Cardinality({k \in Conns : conn[k] \in {"connecting", "open"}}) <= 1

\* C16: a call that returned its delivered reply has no entry left in
\* message_callbacks.
C16_DeliveredCallRemoved ==
    \A c \in Callers :
        (connection_type = "WebSocket" /\ pc[c] = "done" /\ ret[c].id = mid[c])
            => ~InCallbacks(mid[c])

\* C17: the status is one of Disconnected, Connecting, Connected, Error;
\* a connect of a Disconnected or Error client makes it Connecting, and
\* Connected is entered from Connecting only.
C17_ConnectionStateMachine ==
    [][/\ connection_status' \in {"Disconnected", "Connecting", "Connected", "Error"}
       /\ (NewConnection /\ connection_status \in {"Disconnected", "Error"})
             => connection_status' = "Connecting"
       /\ (connection_status # "Connected" /\ connection_status' = "Connected")
             => connection_status = "Connecting"]_vars

\* The step receives a frame that is neither counted as a reply to no
\* pending call nor starts a callback: the frame could not be decoded.
UndecodableStep ==
    /\ frames_received' = frames_received + 1
    /\ unmatched' = unmatched
    /\ \A k \in Conns : handler[k].step = "idle" => handler'[k].step = "idle"

\* C18: a frame that cannot be decoded changes nothing: the table, the
\* calls and the connections with their threads stay as they are, so the
\* handler goes on receiving.
C18_UndecodableFrameDropped ==
    [][UndecodableStep =>
          UNCHANGED <<message_callbacks, conn, handler, ws, ws_connected,
                      connection_status, pc, result, event, ret>>]_vars

\* Two frames on the only connection used, none of them a reply to no
\* pending call, and one call: the first frame was undecodable and the
\* second has been delivered to the call.
C18_Witness ==
    \E c \in Callers :
        /\ event[c]
        /\ result[c].id = mid[c]
        /\ handler[1].step = "del"
        /\ frames_received = 2
        /\ unmatched = 0
        /\ conn[2] = "unused"
        /\ \A d \in Callers \ {c} : pc[d] = "idle"

\* C19: a connection is created only by a step of a caller: line 197 of
\* a send_message that found the client not connected, or the connect
\* button. The steps of the connection threads create none.
C19_NoReconnectByItself ==
    [][NewConnection => (ConnectButton \/ \E c \in Callers : Connect(c))]_vars

\* A connection has failed or closed and the next one exists because a
\* caller asked for it.
C19_Witness ==
    /\ conn[1] \in {"errored", "closed"}
    /\ conn[2] = "connecting"
    /\ ws = 2

\* The HTTP call returned the decoded body of a 2xx response.
HttpSucceeded(c) ==
    connection_type = "HTTP" /\ pc[c] = "done" /\ received[c].kind = "reply"

\* C20: an HTTP call whose k-th attempt is the first to succeed has made k
\* requests, all the earlier ones failed, it has slept once after each of
\* them (k - 1 times) and it returns the reply of the k-th; k is at most
\* max_retries + 1.
C20_FirstSuccessEndsRetries ==
    \A c \in Callers :
        HttpSucceeded(c) =>
            /\ requests_made[c] = failures[c] + 1
            /\ requests_made[c] <= max_retries + 1
            /\ sleeps[c] = requests_made[c] - 1
            /\ ret[c] = received[c].data

\* The second attempt succeeded after one failure and one sleep.
C20_Witness ==
    \E c \in Callers :
        /\ HttpSucceeded(c)
        /\ requests_made[c] = 2
        /\ failures[c] = 1
        /\ sleeps[c] = 1
        /\ ret[c].id = mid[c]

\* C21: a WebSocket call writes its envelope at most once, makes no HTTP
\* request and never sleeps for a retry, whatever max_retries is and
\* however the call ends.
C21_WebSocketSendsOnce ==
    \A c \in Callers :
        connection_type = "WebSocket" =>
            /\ writes[c] <= 1
            /\ requests_made[c] = 0
            /\ sleeps[c] = 0

\* With retries configured, a call timed out after its one write.
C21_Witness ==
    \E c \in Callers :
        /\ connection_type = "WebSocket"
        /\ max_retries = MaxRetriesBound
        /\ TimedOut(c)
        /\ writes[c] = 1

\* Handler k invokes the callback it looked up (line 156).
CallbackStep(k) == handler[k].step = "call" /\ handler'[k].step = "del"

\* C22: the callback of a call is invoked at most once: when a handler
\* invokes it, the call's event is not yet set and its result not written.
C22_CompletedAtMostOnce ==
    [][\A k \in Conns :
          CallbackStep(k) =>
              /\ ~event[handler[k].cb]
              /\ result[handler[k].cb] = EmptyDict]_vars

\* C23: while ws_connected is true, self.ws is a connection and it is
\* open.
C23_ConnectedMeansWsOpen ==
    ws_connected => (ws # NoWs /\ conn[ws] = "open")

====
